---- MODULE Spec2Model ----
(***************************************************************************)
(* The DARWIN operator-selection engine of src/afl_darwin.c: per-seed      *)
(* population state, DARWIN_init, DARWIN_SelectOperator and                *)
(* DARWIN_NotifyFeedback.                                                  *)
(*                                                                         *)
(* The random-number source (rand(), rand_32_int, rand_32_double) and the  *)
(* contents of freshly malloc'ed memory are inputs of the model.  Doubles  *)
(* are exact rationals <<numerator, denominator>>.  An unsigned 32-bit     *)
(* argument is a pair <<high 16 bits, low 16 bits>>; an int is a TLA+      *)
(* integer in -2^31 .. 2^31-1.                                             *)
(***************************************************************************)
EXTENDS Integers, Sequences, FiniteSets, TLC

VARIABLES
    nr_seeds,               \* argument of the last DARWIN_init
    MutationOperatorsNum,   \* K, set by DARWIN_init
    _Fitness,               \* [seed -> [0..M-1 -> int]]
    _bestIndex,             \* [seed -> [0..N-1 -> unsigned]]
    _nextToEvaluate,        \* [seed -> unsigned]
    _individual,            \* [seed -> [0..M-1 -> [0..K-1 -> BOOLEAN]]]
    _currentRelativeProb,   \* [seed -> index j]: the pointer _individual[seed][j]
    p,                      \* [seed -> [0..K-1 -> rational]]
    last,                   \* the last call made: operation, arguments, result
    nCalls,                 \* [seed -> notifyFeedback calls since the last init]
    nBoundaries,            \* [seed -> generation boundaries since the last init]
    steps,                  \* notifyFeedback calls since the last init, all seeds
    odd,                    \* of these, the calls whose inputs were not quiet
    written,                \* [seed -> individuals written for this generation]
    regime                  \* which inputs the run draws: "wide" or "hits"

engine == <<nr_seeds, MutationOperatorsNum, _Fitness, _bestIndex, _nextToEvaluate,
            _individual, _currentRelativeProb, p>>
vars == <<nr_seeds, MutationOperatorsNum, _Fitness, _bestIndex, _nextToEvaluate,
          _individual, _currentRelativeProb, p, last, nCalls, nBoundaries, steps, odd,
          written, regime>>

----------------------------------------------------------------------------
(* Program constants *)

M == 20
N == 4
\* LEARNING_RATE 0.3
LEARNING_RATE == <<3, 10>>
\* the literal 0.5 of DARWIN_init
InitialProb == <<1, 2>>
\* the literal 5 of "5 * i"
EliteStride == 5
SizeofInt == 4
RAND_MAX == 2147483647

----------------------------------------------------------------------------
(* Bounds of the model *)

\* notifyFeedback calls between two inits
MaxSteps == 41
\* of these, the calls whose inputs are not the quiet ones (see Quiet)
MaxOdd == 1

\* the same two bounds when init is given several seeds
MaxStepsShared == 21
MaxOddShared == 0
\* the same two bounds in the runs that vary only the reported path counts
MaxStepsHits == 21
MaxOddHits == 2
\* arguments <<nr_seeds, nr_mutations>> of DARWIN_init
InitArgs == {<<1, 1>>, <<1, 2>>, <<2, 1>>}
\* numPaths arguments, as <<high half, low half>> of the unsigned value
PathVals == {<<0, 0>>, <<0, 1>>, <<32768, 0>>}
\* one more in the runs that vary only the reported path counts
MorePathVals == {<<0, 2>>}
\* values of rand()
RandInts == {0, RAND_MAX}
\* values of rand_32_double(), in [0,1)
RandDoubles == {<<1, 10>>, <<9, 10>>}
\* the byte fresh heap memory is filled with
HeapFills == {0, 1}

----------------------------------------------------------------------------
(* Arithmetic *)

RECURSIVE GCD(_, _)
GCD(a, b) == IF b = 0 THEN a ELSE GCD(b, a % b)

RNorm(num, den) == LET g == GCD(num, den) IN <<num \div g, den \div g>>
RAdd(x, y) == RNorm(x[1] * y[2] + y[1] * x[2], x[2] * y[2])
RMul(x, y) == RNorm(x[1] * y[1], x[2] * y[2])
RLess(x, y) == x[1] * y[2] < y[1] * x[2]
RInt(n) == <<n, 1>>
ROne == <<1, 1>>
RZero == <<0, 1>>

\* unsigned -> int conversion of the assignment "_Fitness[..] = numPaths"
ToInt(u) == IF u[1] >= 32768 THEN (u[1] - 65536) * 65536 + u[2]
            ELSE u[1] * 65536 + u[2]

\* the int every byte of which is b
FillInt(b) == b * 16843009
FillBool(b) == b # 0

RSub(x, y) == RNorm(x[1] * y[2] - y[1] * x[2], x[2] * y[2])

----------------------------------------------------------------------------
(* Index sets *)

Seeds == 0 .. (nr_seeds - 1)
Ops == 0 .. (MutationOperatorsNum - 1)
Population == 0 .. (M - 1)
Buckets == 0 .. (N - 1)

----------------------------------------------------------------------------
(* Pieces of the three operations *)

\* memset(a, 0, nbytes) on an array of int: the ints that lie wholly inside
\* the first nbytes bytes become 0, the others keep their value
Memset0(a, nbytes) ==
    [j \in DOMAIN a |-> IF (j + 1) * SizeofInt <= nbytes THEN 0 ELSE a[j]]

\* for (i < N) _bestIndex[seed][i] = 5 * i
StridePlacement_Shifted == [i \in Buckets |-> EliteStride * i + 1]
StridePlacement_OffByOne == [i \in Buckets |-> EliteStride * (i + 1)]
StridePlacement == [i \in Buckets |-> EliteStride * i]

\* _nextToEvaluate[seed] * N / M, in unsigned arithmetic
Bucket_Mod(c) == c % N
Bucket(c) == (c * N) \div M

\* _Fitness[seed][_bestIndex[seed][c*N/M]], read after the write of line 110
IncumbentFitness(fit, best, c) == fit[best[Bucket(c)]]

\* variants of the comparison of line 113
Elitism_Reversed(fit, best, c) ==
    IF fit[c] < IncumbentFitness(fit, best, c)
    THEN [best EXCEPT ![Bucket(c)] = c]
    ELSE best
Elitism_NonStrict(fit, best, c) ==
    IF fit[c] >= IncumbentFitness(fit, best, c)
    THEN [best EXCEPT ![Bucket(c)] = c]
    ELSE best

\* if (_Fitness[c] > _Fitness[_bestIndex[c*N/M]]) _bestIndex[c*N/M] = c
Elitism(fit, best, c) ==
    IF fit[c] > IncumbentFitness(fit, best, c)
    THEN [best EXCEPT ![Bucket(c)] = c]
    ELSE best

\* sum += _individual[seed][_bestIndex[seed][j]][i], for j < N
RECURSIVE EliteSumFrom(_, _, _, _)
EliteSumFrom(ind, best, i, j) ==
    IF j = N THEN 0
    ELSE (IF ind[best[j]][i] THEN 1 ELSE 0) + EliteSumFrom(ind, best, i, j + 1)
EliteSum(ind, best, i) == EliteSumFrom(ind, best, i, 0)

\* variants of the two clamps of lines 128-129
ClampSum_NoClamp(sum) == sum
ClampSum_NoLowClamp(sum) == IF sum = N THEN sum - 1 ELSE sum

\* if (sum == N) sum--;  if (sum == 0) sum++;
ClampSum(sum) ==
    LET s1 == IF sum = N THEN sum - 1 ELSE sum
    IN  IF s1 = 0 THEN s1 + 1 ELSE s1

\* (1 - LEARNING_RATE) * p + LEARNING_RATE * sum / N
Smooth_NoDivision(pi, sum) ==
    RAdd(RMul(RSub(ROne, LEARNING_RATE), pi), RMul(LEARNING_RATE, RInt(sum)))
Smooth(pi, sum) ==
    RAdd(RMul(RSub(ROne, LEARNING_RATE), pi),
         RMul(RMul(LEARNING_RATE, RInt(sum)), <<1, N>>))

\* the probability vector after the loop of lines 123-132
UpdateProb(pv, ind, best) ==
    [i \in DOMAIN pv |-> Smooth(pv[i], ClampSum(EliteSum(ind, best, i)))]

\* (rand_32_double() < p[seed][i]) ? 1 : 0, for every operator i
Sample(d, pv) == [i \in DOMAIN pv |-> RLess(d[i], pv[i])]

\* _currentRelativeProb[seed] = &_individual[seed][c][0], then the sampling
\* loop writes through it
Materialize_All(ind, c, d, pv) == [j \in DOMAIN ind |-> Sample(d, pv)]
Materialize(ind, c, d, pv) == [ind EXCEPT ![c] = Sample(d, pv)]

\* rand() > (RAND_MAX / 2), for every operator i
InitialSample(r) == [i \in DOMAIN r |-> r[i] > (RAND_MAX \div 2)]

\* if (_nextToEvaluate[seed] == M), after the increment
AtBoundary_Late(c1) == c1 > M
AtBoundary_Early(c1) == c1 >= M - 1
AtBoundary(c1) == c1 = M

\* the while loop of DARWIN_SelectOperator
RECURSIVE Probe_NoWrap(_, _, _, _)
Probe_NoWrap(cand, operatorId, nTries, nOps) ==
    IF operatorId < nOps /\ cand[operatorId] = FALSE /\ nTries < nOps
    THEN Probe_NoWrap(cand, operatorId + 1, nTries + 1, nOps)
    ELSE operatorId
RECURSIVE Probe_OneTryShort(_, _, _, _)
Probe_OneTryShort(cand, operatorId, nTries, nOps) ==
    IF cand[operatorId] = FALSE /\ nTries < nOps - 1
    THEN Probe_OneTryShort(cand, (operatorId + 1) % nOps, nTries + 1, nOps)
    ELSE operatorId
RECURSIVE Probe(_, _, _, _)
Probe(cand, operatorId, nTries, nOps) ==
    IF cand[operatorId] = FALSE /\ nTries < nOps
    THEN Probe(cand, (operatorId + 1) % nOps, nTries + 1, nOps)
    ELSE operatorId

\* the vector _currentRelativeProb[seed] points to
Candidate(seed) == _individual[seed][_currentRelativeProb[seed]]

----------------------------------------------------------------------------
(* DARWIN_init *)

\* the per-seed state DARWIN_init builds; fill is the content of the fresh
\* heap memory, r the values rand() returns for this seed
InitFitness(fill) == Memset0([j \in Population |-> FillInt(fill)], M)
InitIndividual(nm, fill, r) ==
    [j \in Population |->
        IF j = 0 THEN InitialSample(r)
        ELSE [i \in 0 .. (nm - 1) |-> FillBool(fill)]]

NoCall == [op |-> "init", seed |-> 0, start |-> 0, numPaths |-> <<0, 0>>, ret |-> 0]

DARWIN_init(ns, nm, fill, r) ==
    /\ nr_seeds' = ns
    /\ MutationOperatorsNum' = nm
    /\ _nextToEvaluate' = [s \in 0 .. (ns - 1) |-> 0]
    /\ _Fitness' = [s \in 0 .. (ns - 1) |-> InitFitness(fill)]
    /\ p' = [s \in 0 .. (ns - 1) |-> [i \in 0 .. (nm - 1) |-> InitialProb]]
    /\ _bestIndex' = [s \in 0 .. (ns - 1) |-> StridePlacement]
    /\ _individual' = [s \in 0 .. (ns - 1) |-> InitIndividual(nm, fill, r[s])]
    /\ _currentRelativeProb' = [s \in 0 .. (ns - 1) |-> 0]

----------------------------------------------------------------------------
(* DARWIN_SelectOperator *)

\* "=" written for "==" in the loop condition: the flag is cleared, the loop
\* body never runs
DARWIN_SelectOperator_Assign(seed, start) ==
    /\ last' = [op |-> "select", seed |-> seed, start |-> start,
                numPaths |-> <<0, 0>>, ret |-> start]
    /\ _individual' = [_individual EXCEPT
                          ![seed][_currentRelativeProb[seed]][start] = FALSE]
    /\ UNCHANGED <<nr_seeds, MutationOperatorsNum, _Fitness, _bestIndex,
                   _nextToEvaluate, _currentRelativeProb, p>>

DARWIN_SelectOperator(seed, start) ==
    /\ last' = [op |-> "select", seed |-> seed, start |-> start,
                numPaths |-> <<0, 0>>,
                ret |-> Probe(Candidate(seed), start, 0, MutationOperatorsNum)]
    /\ UNCHANGED engine

----------------------------------------------------------------------------
(* DARWIN_NotifyFeedback *)

\* the state of one seed after DARWIN_NotifyFeedback(seed, numPaths), where
\* d are the values rand_32_double() returns
After(seed, numPaths, d) ==
    LET c    == _nextToEvaluate[seed]
        fit1 == [_Fitness[seed] EXCEPT ![c] = ToInt(numPaths)]
        best1 == Elitism(fit1, _bestIndex[seed], c)
        c1   == c + 1
        boundary == AtBoundary(c1)
        p1   == IF boundary THEN UpdateProb(p[seed], _individual[seed], best1)
                ELSE p[seed]
        c2   == IF boundary THEN 0 ELSE c1
        best2 == IF boundary THEN StridePlacement ELSE best1
        fit2 == IF boundary THEN Memset0(fit1, M) ELSE fit1
        gen  == c2 < M
    IN  [fit |-> fit2, best |-> best2, next |-> c2, pr |-> p1,
         cur |-> IF gen THEN c2 ELSE _currentRelativeProb[seed],
         ind |-> IF gen THEN Materialize(_individual[seed], c2, d, p1)
                 ELSE _individual[seed],
         boundary |-> boundary,
         \* what the call read on its way: the fitness the comparison of line
         \* 113 is made against, and the elite indices after line 115
         incumbent |-> IncumbentFitness(fit1, _bestIndex[seed], c),
         elite |-> best1]

\* the cursor kept in one cell shared by all seeds
Store_SharedCursor(seed, a) ==
    /\ _Fitness' = [_Fitness EXCEPT ![seed] = a.fit]
    /\ _bestIndex' = [_bestIndex EXCEPT ![seed] = a.best]
    /\ _nextToEvaluate' = [s \in DOMAIN _nextToEvaluate |-> a.next]
    /\ p' = [p EXCEPT ![seed] = a.pr]
    /\ _individual' = [_individual EXCEPT ![seed] = a.ind]
    /\ _currentRelativeProb' = [_currentRelativeProb EXCEPT ![seed] = a.cur]
    /\ UNCHANGED <<nr_seeds, MutationOperatorsNum>>

Store_StalePointer(seed, a) ==
    /\ _Fitness' = [_Fitness EXCEPT ![seed] = a.fit]
    /\ _bestIndex' = [_bestIndex EXCEPT ![seed] = a.best]
    /\ _nextToEvaluate' = [_nextToEvaluate EXCEPT ![seed] = a.next]
    /\ p' = [p EXCEPT ![seed] = a.pr]
    /\ _individual' = [_individual EXCEPT ![seed] = a.ind]
    /\ UNCHANGED <<nr_seeds, MutationOperatorsNum, _currentRelativeProb>>

Store(seed, a) ==
    /\ _Fitness' = [_Fitness EXCEPT ![seed] = a.fit]
    /\ _bestIndex' = [_bestIndex EXCEPT ![seed] = a.best]
    /\ _nextToEvaluate' = [_nextToEvaluate EXCEPT ![seed] = a.next]
    /\ p' = [p EXCEPT ![seed] = a.pr]
    /\ _individual' = [_individual EXCEPT ![seed] = a.ind]
    /\ _currentRelativeProb' = [_currentRelativeProb EXCEPT ![seed] = a.cur]
    /\ UNCHANGED <<nr_seeds, MutationOperatorsNum>>

DARWIN_NotifyFeedback(seed, numPaths, d) ==
    \E a \in {After(seed, numPaths, d)} : Store(seed, a)

----------------------------------------------------------------------------
(* The calls the fuzzer makes *)

\* a call is quiet when it reports no new path and the candidate it samples
\* repeats the one before it
Quiet(seed, numPaths, a) ==
    /\ numPaths = <<0, 0>>
    /\ a.ind[a.cur] = Candidate(seed)

Start(ns, nm, fill, r) ==
    /\ nr_seeds = ns
    /\ MutationOperatorsNum = nm
    /\ _nextToEvaluate = [s \in 0 .. (ns - 1) |-> 0]
    /\ _Fitness = [s \in 0 .. (ns - 1) |-> InitFitness(fill)]
    /\ p = [s \in 0 .. (ns - 1) |-> [i \in 0 .. (nm - 1) |-> InitialProb]]
    /\ _bestIndex = [s \in 0 .. (ns - 1) |-> StridePlacement]
    /\ _individual = [s \in 0 .. (ns - 1) |-> InitIndividual(nm, fill, r[s])]
    /\ _currentRelativeProb = [s \in 0 .. (ns - 1) |-> 0]
    /\ last = NoCall
    /\ nCalls = [s \in 0 .. (ns - 1) |-> 0]
    /\ nBoundaries = [s \in 0 .. (ns - 1) |-> 0]
    /\ steps = 0
    /\ odd = 0
    /\ written = [s \in 0 .. (ns - 1) |-> {0}]

Init ==
    /\ \E args \in InitArgs, fill \in HeapFills :
        \E r \in [0 .. (args[1] - 1) -> [0 .. (args[2] - 1) -> RandInts]] :
            Start(args[1], args[2], fill, r)
    /\ regime = "wide"

\* one seed, one operator, for the runs that vary only the path counts
InitHits ==
    /\ \E fill \in HeapFills :
        \E r \in [0 .. 0 -> [0 .. 0 -> RandInts]] :
            Start(1, 1, fill, r)
    /\ regime = "hits"

\* DARWIN_init called again with the same arguments
ReInit ==
    /\ steps > 0
    /\ \E fill \in HeapFills :
        \E r \in [Seeds -> [Ops -> RandInts]] :
            DARWIN_init(nr_seeds, MutationOperatorsNum, fill, r)
    /\ last' = [NoCall EXCEPT !.op = "reinit"]
    /\ nCalls' = [s \in Seeds |-> 0]
    /\ nBoundaries' = [s \in Seeds |-> 0]
    /\ steps' = 0
    /\ odd' = 0
    /\ written' = [s \in Seeds |-> {0}]
    /\ UNCHANGED regime

SelectOperator ==
    /\ \E seed \in Seeds, start \in Ops : DARWIN_SelectOperator(seed, start)
    /\ UNCHANGED <<nCalls, nBoundaries, steps, odd, written, regime>>

StepLimit ==
    IF regime = "hits" THEN MaxStepsHits
    ELSE IF nr_seeds = 1 THEN MaxSteps ELSE MaxStepsShared
OddLimit ==
    IF regime = "hits" THEN MaxOddHits
    ELSE IF nr_seeds = 1 THEN MaxOdd ELSE MaxOddShared
\* the path counts a call may report
Paths == IF regime = "hits" THEN PathVals \cup MorePathVals ELSE PathVals
\* in the "hits" runs every sampled candidate repeats the one before it
DrawsAllowed(seed, a) == regime = "hits" => a.ind[a.cur] = Candidate(seed)

NotifyFeedback ==
    /\ steps < StepLimit
    /\ \E seed \in Seeds, numPaths \in Paths, d \in [Ops -> RandDoubles] :
        \E a \in {After(seed, numPaths, d)} :
            /\ Quiet(seed, numPaths, a) \/ odd < OddLimit
            /\ DrawsAllowed(seed, a)
            /\ DARWIN_NotifyFeedback(seed, numPaths, d)
            /\ last' = [op |-> "notify", seed |-> seed, start |-> 0,
                        numPaths |-> numPaths, ret |-> 0]
            /\ nCalls' = [nCalls EXCEPT ![seed] = @ + 1]
            /\ nBoundaries' = [nBoundaries EXCEPT ![seed] =
                                  IF a.boundary THEN @ + 1 ELSE @]
            /\ odd' = IF Quiet(seed, numPaths, a) THEN odd ELSE odd + 1
            /\ written' = [written EXCEPT ![seed] =
                              IF a.boundary THEN {a.cur} ELSE @ \cup {a.cur}]
    /\ steps' = steps + 1
    /\ UNCHANGED regime

Next == ReInit \/ SelectOperator \/ NotifyFeedback

Spec == Init /\ [][Next]_vars
SpecHits == InitHits /\ [][Next]_vars

----------------------------------------------------------------------------
(* Properties *)

K == MutationOperatorsNum
AllOff(cand) == \A i \in Ops : cand[i] = FALSE
RPos(x) == RLess(RZero, x)
RBelowOne(x) == RLess(x, ROne)

\* everything the engine keeps for one seed
SeedState(s) == <<_Fitness[s], _bestIndex[s], _nextToEvaluate[s], _individual[s],
                  _currentRelativeProb[s], p[s]>>

\* C1: whatever the current candidate holds and whatever start is drawn in
\* [0,K), DARWIN_SelectOperator returns an operator id in [0,K)
C1_SelectInRange ==
    last.op = "select" => last.ret \in 0 .. (K - 1)

\* a select on an all-off candidate, started at the last operator of two
C1_Witness ==
    /\ last.op = "select"
    /\ K = 2
    /\ AllOff(Candidate(last.seed))
    /\ last.start = 1
    /\ nCalls[last.seed] > 0

\* C2: after init and after any number of notifyFeedback calls every
\* p[seed][op] lies in [0,1] and is neither 0 nor 1
C2_ProbStrictlyInside ==
    \A s \in Seeds : \A i \in Ops : RPos(p[s][i]) /\ RBelowOne(p[s][i])

\* two generations have updated the vector, and it moved
C2_Witness ==
    \E s \in Seeds : \E i \in Ops :
        /\ nBoundaries[s] = 2
        /\ p[s][i] # InitialProb
        /\ odd = 1

\* C3: for each seed the generation boundaries are exactly its calls number
\* M, 2M, 3M, ...; the calls made for other seeds do not count
C3_BoundaryEveryM ==
    \A s \in Seeds :
        /\ nBoundaries[s] = nCalls[s] \div M
        /\ _nextToEvaluate[s] = nCalls[s] % M

\* a seed just past its second boundary
C3_Witness ==
    \E s \in Seeds : nCalls[s] = 2 * M /\ nBoundaries[s] = 2 /\ last.op = "notify"

\* C4: after init and after every completed notifyFeedback call the cursor
\* of every seed is in [0, M)
C4_CursorInRange ==
    \A s \in Seeds : _nextToEvaluate[s] \in 0 .. (M - 1)

\* the cursor has just wrapped from M - 1 to 0
C4_Witness ==
    /\ last.op = "notify"
    /\ nCalls[last.seed] = M
    /\ _nextToEvaluate[last.seed] = 0

\* C5: with M = 20 and N = 4 every elite index is a population index and the
\* bucket of the cursor is below N
C5_EliteIndicesValid ==
    /\ M = 20 /\ N = 4
    /\ \A s \in Seeds :
        /\ \A b \in Buckets : _bestIndex[s][b] \in 0 .. (M - 1)
        /\ Bucket(_nextToEvaluate[s]) \in 0 .. (N - 1)

\* the last bucket holds an elite that is not its placeholder, with the
\* cursor on the last individual
C5_Witness ==
    \E s \in Seeds :
        /\ _bestIndex[s][N - 1] > EliteStride * (N - 1)
        /\ _nextToEvaluate[s] = M - 1

\* C6: DARWIN_SelectOperator changes nothing of the engine state of any seed
C6_SelectChangesNothing ==
    [][last'.op = "select" => engine' = engine]_vars

\* a select made in the middle of a generation
C6_Witness ==
    /\ last.op = "select"
    /\ _nextToEvaluate[last.seed] > 0
    /\ nBoundaries[last.seed] > 0

\* the first operator that is on, in cyclic increasing order from start; start
\* itself when none is on
RECURSIVE FirstOnFrom(_, _, _)
FirstOnFrom(cand, start, k) ==
    IF k = K THEN start
    ELSE IF cand[(start + k) % K] THEN (start + k) % K
    ELSE FirstOnFrom(cand, start, k + 1)

C8_OtherSeedsUntouched ==
    [][\A s \in Seeds :
          (last'.op \in {"select", "notify"} /\ last'.seed # s)
              => SeedState(s)' = SeedState(s)]_vars

\* seed 1 has completed a generation while seed 0 is in the middle of one
C8_Witness ==
    /\ nr_seeds = 2
    /\ last.op = "notify"
    /\ last.seed = 1
    /\ nBoundaries[1] = 1
    /\ nCalls[0] = 1

\* C9: init called again with the same arguments leaves, for every seed,
\* cursor 0, every p[i] = 0.5, elite indices 5*i, all fitness entries 0 and
\* individual 0 as the current candidate
C9_ReInitFresh ==
    last.op = "reinit" =>
        \A s \in Seeds :
            /\ _nextToEvaluate[s] = 0
            /\ \A i \in Ops : p[s][i] = InitialProb
            /\ \A b \in Buckets : _bestIndex[s][b] = EliteStride * b
            /\ \A j \in Population : _Fitness[s][j] = 0
            /\ _currentRelativeProb[s] = 0

\* C10: all M fitness entries of a seed are 0 right after init and right
\* after every notifyFeedback call that completes a generation
C10_FitnessAllZero ==
    \A s \in Seeds :
        (\/ last.op \in {"init", "reinit"}
         \/ (last.op = "notify" /\ last.seed = s /\ _nextToEvaluate[s] = 0))
            => \A j \in Population : _Fitness[s][j] = 0

\* ---------------------------------------------------------------------
\* what a notifyFeedback step is, seen from the two states around it

\* the step is a notifyFeedback call on seed s
NotifyStep(s) == last'.op = "notify" /\ last'.seed = s
\* ... and it is the call that completes the generation
BoundaryStep(s) == NotifyStep(s) /\ _nextToEvaluate[s] = M - 1
\* the random draws do not influence what a call reads before sampling
AnyDraw == CHOOSE d \in [Ops -> RandDoubles] : TRUE
\* the elite indices the call on seed s has after its elitism step
EliteRead(s) == After(s, last'.numPaths, AnyDraw).elite
\* the fitness array of seed s after the write of the reported value
FitnessRead(s) ==
    [_Fitness[s] EXCEPT ![_nextToEvaluate[s]] = ToInt(last'.numPaths)]
\* the indices of bucket b
Members(b) == {j \in Population : (j * N) \div M = b}
\* the lowest index among those of bucket b with the highest fitness
BestOf(fit, b) ==
    CHOOSE j \in Members(b) :
        /\ \A k \in Members(b) : fit[k] <= fit[j]
        /\ \A k \in Members(b) : k < j => fit[k] < fit[j]

\* C11: when the probability update of a boundary runs, the elite of every
\* bucket is the individual of that bucket with the highest fitness reported
\* in the generation, the lowest index on ties, provided every reported path
\* count of the generation is within the non-negative int range
C11_EliteIsBucketBest ==
    [][\A s \in Seeds :
          (BoundaryStep(s) /\ \A j \in Population : FitnessRead(s)[j] >= 0)
              => \A b \in Buckets :
                     EliteRead(s)[b] = BestOf(FitnessRead(s), b)]_vars

\* a first generation has ended in which individual 6 reported 1 and
\* individual 8 of the same bucket reported 2
C11_Witness ==
    /\ last.op = "notify"
    /\ nBoundaries[0] = 1
    /\ _nextToEvaluate[0] = 0
    /\ _Fitness[0][6] = 1
    /\ _Fitness[0][8] = 2
    /\ _Fitness[0][19] = 0

\* C12: the elitism step of a call at cursor j changes at most the slot of
\* bucket j*N/M; that slot becomes j if the recorded fitness is strictly
\* greater than the incumbent's and keeps the incumbent otherwise
C12_ElitismStep ==
    [][\A s \in Seeds :
          NotifyStep(s) =>
              LET j   == _nextToEvaluate[s]
                  b   == (j * N) \div M
                  inc == _bestIndex[s][b]
                  f   == ToInt(last'.numPaths)
                  g   == IF inc = j THEN f ELSE _Fitness[s][inc]
                  e   == [_bestIndex[s] EXCEPT ![b] = IF f > g THEN j ELSE inc]
              IN  /\ EliteRead(s) = e
                  /\ j # M - 1 => _bestIndex'[s] = e]_vars

\* individual 3 reported 2 and has just replaced individual 1, which had
\* reported 1


C12_Witness ==
    /\ last.op = "notify"
    /\ last.numPaths = <<0, 2>>
    /\ _nextToEvaluate[0] = 4
    /\ _Fitness[0][1] = 1
    /\ _Fitness[0][3] = 2
    /\ _bestIndex[0][0] = 3

\* equality of two rationals
REq(x, y) == x[1] * y[2] = y[1] * x[2]
\* how many of the elites read by the update have operator i on
EliteCount(s, i) ==
    Cardinality({b \in Buckets : _individual[s][EliteRead(s)[b]][i]})

\* C13: at every boundary the new p[i] is (1 - 0.3) * p[i] + 0.3 * c / N,
\* where c is the number of elites with operator i on, taken as N - 1 when
\* it is N and as 1 when it is 0
C13_ProbUpdate ==
    [][\A s \in Seeds :
          BoundaryStep(s) =>
              \A i \in Ops :
                  LET raw == EliteCount(s, i)
                      c   == IF raw = N THEN N - 1 ELSE IF raw = 0 THEN 1 ELSE raw
                      old == p[s][i]
                  IN  REq(p'[s][i],
                          <<28 * old[1] + 3 * c * old[2], 40 * old[2]>>)]_vars

\* a first generation in which every individual had operator 0 on has
\* ended: the count 4 was taken as 3 and p[0] is 0.7 * 0.5 + 0.3 * 3/4
C13_Witness ==
    /\ last.op = "notify"
    /\ nBoundaries[0] = 1
    /\ _nextToEvaluate[0] = 0
    /\ odd = 0
    /\ \A j \in Population : _individual[0][j][0]
    /\ p[0][0] = <<23, 40>>

\* C14: p of a seed changes only in the notifyFeedback call on that seed
\* that completes a generation; every other call leaves it as it is
C14_ProbOnlyAtBoundary ==
    [][last'.op # "reinit" =>
          \A s \in Seeds : p'[s] # p[s] => BoundaryStep(s)]_vars

\* in the middle of the second generation p still has the value the first
\* boundary gave it
C14_Witness ==
    /\ last.op = "notify"
    /\ nBoundaries[0] = 1
    /\ _nextToEvaluate[0] = 7
    /\ p[0][0] # InitialProb

IncumbentRead(s) == After(s, last'.numPaths, AnyDraw).incumbent

\* C16 as stated: on the first notifyFeedback call of a generation (cursor 0)
\* the fitness of the incumbent elite that the report is compared against
\* is 0
C16_FirstCompareAgainstZero ==
    [][\A s \in Seeds :
          (NotifyStep(s) /\ _nextToEvaluate[s] = 0) => IncumbentRead(s) = 0]_vars

\* C16: on the first notifyFeedback call of a generation (cursor 0) the
\* incumbent elite of bucket 0 is individual 0 itself, so the report is
\* compared against the value just recorded for it, and the slot keeps 0
C16_FirstCompareAgainstItself ==
    [][\A s \in Seeds :
          (NotifyStep(s) /\ _nextToEvaluate[s] = 0) =>
              /\ _bestIndex[s][0] = 0
              /\ IncumbentRead(s) = ToInt(last'.numPaths)
              /\ _bestIndex'[s][0] = 0]_vars

\* the first call of the second generation has reported 1
C16_Witness ==
    /\ last.op = "notify"
    /\ last.numPaths = <<0, 1>>
    /\ nBoundaries[0] = 1
    /\ _nextToEvaluate[0] = 1
    /\ _Fitness[0][0] = 1
    /\ _bestIndex[0][0] = 0

\* the unsigned value whose bits the int f holds
UnsignedOf(f) ==
    IF f >= 0 THEN <<f \div 65536, f % 65536>>
    ELSE LET g == (f + 2147483647) + 1
         IN  <<32768 + (g \div 65536), g % 65536>>
\* x < y for two unsigned values
ULess(x, y) == x[1] < y[1] \/ (x[1] = y[1] /\ x[2] < y[2])

\* C17 as stated: whatever unsigned value is reported, an individual that
\* reports strictly more paths than the incumbent of its bucket had reported
\* replaces it
C17_LargerReportReplaces ==
    [][\A s \in Seeds :
          NotifyStep(s) =>
              LET j   == _nextToEvaluate[s]
                  b   == (j * N) \div M
                  inc == _bestIndex[s][b]
              IN  (/\ j # M - 1
                   /\ inc # j
                   /\ ULess(UnsignedOf(_Fitness[s][inc]), last'.numPaths))
                      => _bestIndex'[s][b] = j]_vars

\* C18: a notifyFeedback call writes no individual but the one at the new
\* cursor, so that at the boundary every elite index read by the update
\* names an individual written for this generation and evaluated in it
C18_ElitesAreOfThisGeneration ==
    [][\A s \in Seeds :
          NotifyStep(s) =>
              /\ \A j \in Population \ {_nextToEvaluate'[s]} :
                     _individual'[s][j] = _individual[s][j]
              /\ written[s] = 0 .. _nextToEvaluate[s]
              /\ BoundaryStep(s) =>
                     \A b \in Buckets : EliteRead(s)[b] \in written[s]]_vars

\* the first generation has ended with individual 19, written and
\* evaluated last, as the elite of its bucket
C18_Witness ==
    /\ last.op = "notify"
    /\ nBoundaries[0] = 1
    /\ _nextToEvaluate[0] = 0
    /\ written[0] = {0}
    /\ _Fitness[0][19] = 1
    /\ _Fitness[0][18] = 0

\* C19: every p[seed][i] is within [1/4, 3/4]
C19_ProbWithinQuarterBounds ==
    \A s \in Seeds : \A i \in Ops :
        /\ ~RLess(p[s][i], <<1, N>>)
        /\ ~RLess(<<N - 1, N>>, p[s][i])

\* two generations in which all elites had operator 0 on have taken p[0]
\* to 0.7 * (0.7 * 0.5 + 0.3 * 3/4) + 0.3 * 3/4
C19_Witness ==
    /\ last.op = "notify"
    /\ nBoundaries[0] = 2
    /\ p[0][0] = <<251, 400>>

\* C20: the elite index of bucket b is one of 5b .. 5b + 4, and it is
\* either the placeholder 5b or an index below the cursor; the N elite
\* indices are pairwise distinct
C20_ElitesInOwnBucket ==
    \A s \in Seeds :
        /\ \A b \in Buckets :
              /\ EliteStride * b <= _bestIndex[s][b]
              /\ _bestIndex[s][b] < EliteStride * b + EliteStride
              /\ (_bestIndex[s][b] * N) \div M = b
              /\ \/ _bestIndex[s][b] = EliteStride * b
                 \/ _bestIndex[s][b] < _nextToEvaluate[s]
        /\ \A b1, b2 \in Buckets :
              b1 # b2 => _bestIndex[s][b1] # _bestIndex[s][b2]

\* in the second generation, with the cursor at 9, individual 7 is the
\* elite of bucket 1 and bucket 2 still has its placeholder
C20_Witness ==
    /\ nBoundaries[0] = 1
    /\ _nextToEvaluate[0] = 9
    /\ _bestIndex[0][1] = 7
    /\ _bestIndex[0][2] = 10

====
